---- MODULE Spec2Model ----
(***************************************************************************)
(* z2pdf: reconstruction of the room graph of a Z-machine story file.      *)
(*                                                                         *)
(* The model follows src/src/z2pdf/main.py.  The image is a sequence of    *)
(* bytes (address a of the program is element a+1 of the sequence).  What  *)
(* the external collaborators (zparser.ZParser, opcodes.OpcodeDecoder)     *)
(* return is an input: the property-table address of each object, the      *)
(* dictionary address of the header, the decoded dictionary words and the  *)
(* operands of decoded instructions.                                       *)
(*                                                                         *)
(* Specifications:                                                         *)
(*   SpecDecode  the three property-table decoders, one loop iteration per *)
(*               step, over fuzzed images;                                 *)
(*   Spec        the exit pipeline: ZMapExtractor._extract_exits followed  *)
(*               by StaticExitExtractor.extract_exits.                     *)
(*   SpecRoundTrip  _get_object_properties over encoded valid tables;       *)
(*   SpecRooms   _find_rooms and _find_objects over object tables, followed *)
(*               by a second run of _find_rooms;                           *)
(*   SpecDecodeFair  SpecDecode with every decode running to its return;   *)
(*   SpecTwice   Spec with extract_exits called again after it returned.   *)
(***************************************************************************)
EXTENDS Integers, Sequences, FiniteSets, TLC

VARIABLES
    data,          \* the story image: self.data / self.parser.data
    version,       \* self.parser.header.version
    objAddr,       \* object number -> obj.properties, or NoObj (get_object gave None)
    dictAddr,      \* self.parser.header.dictionary
    words,         \* self.parser.get_dictionary_words()
    decoderAvail,  \* whether "from opcodes import OpcodeDecoder" succeeds
    rooms,         \* keys of extractor.rooms, in insertion order
    exits,         \* room number -> room.exits (label -> destination)
    pc,            \* position of the pipeline
    ri,            \* index in rooms of the room the running loop is at
    roomObjs,      \* StaticExitExtractor.room_objs
    exitProps,     \* exit_props of extract_exits
    propOrder,     \* the order in which "for prop_num in exit_props" yields the set
    pi,            \* index in propOrder of the property the loop is at
    propToWord,    \* prop_to_word of extract_exits, after the filter
    total,         \* total_exits
    ret,           \* value returned by extract_exits, or None
    dec,           \* the running property-table decode (SpecDecode)
    objTbl,        \* object number -> what get_object / get_object_name give
    gameObjs       \* extractor.objects, in insertion order

vars == <<data, version, objAddr, dictAddr, words, decoderAvail, rooms, exits,
          pc, ri, roomObjs, exitProps, propOrder, pi, propToWord, total, ret, dec,
          objTbl, gameObjs>>

pipeVars == <<objAddr, dictAddr, words, decoderAvail, rooms, exits, pc, ri,
              roomObjs, exitProps, propOrder, pi, propToWord, total, ret,
              objTbl, gameObjs>>

\* get_object(obj_num) gave None (no such object)
NoObj == 0 - 1
\* no value returned (yet)
None == 0 - 1

\* ------------------------------------------------------------------ bounds

\* number of freely chosen leading bytes of a fuzzed image
MaxFree == 3
\* number of dictionary entries of the dictionary-rich images
MaxWords == 2

\* ------------------------------------------------------------------ bytes

Min(a, b) == IF a < b THEN a ELSE b

Range(s) == {s[i] : i \in DOMAIN s}

EmptyMap == [x \in {} |-> 0]

\* data[a] for an address inside the image
ByteAt(d, a) == d[a + 1]

\* list(data[a:b]): a Python slice stops at the end of the buffer
Slice(d, a, b) ==
    LET hi == Min(b, Len(d))
    IN  IF a < hi THEN [i \in 1..(hi - a) |-> d[a + i]] ELSE <<>>

\* the addresses a slice data[a:b] takes bytes from
SliceAddrs(d, a, b) == {x \in a..(b - 1) : x < Len(d)}

\* ------------------------------------------- StaticExitExtractor._get_object_properties

\* the address bound of the decode loop: len(self.data) - 10
PropsLoopMargin == 10

\* a decode in progress: where it is (st), the address it is at, the addresses
\* it has read, and what it has built
DecState(fn, obj, pn, st, addr, reads, props, res, count) ==
    [fn |-> fn, obj |-> obj, pn |-> pn, st |-> st, addr |-> addr, reads |-> reads,
     props |-> props, res |-> res, count |-> count]

\* the range check left out
PropAddrOutside_NoCheck(d, a) == FALSE

\* the range check of the table address: "if prop_addr >= len(self.data)"
PropAddrOutside(d, a) == a >= Len(d)

\* _get_object_properties up to the loop: get_object, the range check of the
\* table address and the skip of the short name.  A read outside the image
\* raises IndexError, which the function's except swallows.
GetPropsStart(d, a) ==
    IF a = NoObj
    THEN DecState("props", a, 0, "ret", 0, {}, EmptyMap, FALSE, 0)
    ELSE IF PropAddrOutside(d, a)
    THEN DecState("props", a, 0, "ret", a, {}, EmptyMap, FALSE, 0)
    ELSE IF a >= Len(d)
    THEN DecState("props", a, 0, "ret", a, {a}, EmptyMap, FALSE, 0)
    ELSE DecState("props", a, 0, "loop", a + 1 + 2 * ByteAt(d, a), {a},
                  EmptyMap, FALSE, 0)

\* one evaluation of the loop condition and, when it holds, of the loop body
GetPropsIter(d, s) ==
    IF ~(s.addr < Len(d) - PropsLoopMargin)
    THEN [s EXCEPT !.st = "ret"]
    ELSE LET size_byte == ByteAt(d, s.addr)
             prop_num == size_byte % 32
             prop_size == (size_byte \div 32) + 1
             prop_data == Slice(d, s.addr + 1, s.addr + 1 + prop_size)
         IN  IF size_byte = 0
             THEN [s EXCEPT !.st = "ret", !.reads = @ \cup {s.addr}]
             ELSE [s EXCEPT
                     !.reads = @ \cup {s.addr}
                                 \cup SliceAddrs(d, s.addr + 1, s.addr + 1 + prop_size),
                     !.props = [x \in DOMAIN s.props \cup {prop_num} |->
                                  IF x = prop_num THEN prop_data ELSE s.props[x]],
                     !.addr = s.addr + 1 + prop_size]

RECURSIVE GetPropsRun(_, _)
GetPropsRun(d, s) == IF s.st = "loop" THEN GetPropsRun(d, GetPropsIter(d, s)) ELSE s

\* properties(objectId): the table _get_object_properties returns for an object
\* whose property-table address is a
GetObjectProperties(d, a) == GetPropsRun(d, GetPropsStart(d, a)).props

\* ------------------------------------------------------ ZMapExtractor._has_property

\* _has_property up to the loop
HasPropStart(d, a, pn) ==
    IF a = NoObj \/ a >= Len(d)
    THEN DecState("has", a, pn, "ret", 0, {}, EmptyMap, FALSE, 0)
    ELSE DecState("has", a, pn, "loop", a + 1 + 2 * ByteAt(d, a), {a},
                  EmptyMap, FALSE, 0)

\* the end of a loop iteration: "if p_num == prop_num: return True", else advance
HasPropMatch(s, p_num, p_size, at, rd) ==
    IF p_num = s.pn
    THEN [s EXCEPT !.st = "ret", !.res = TRUE, !.addr = at, !.reads = @ \cup rd]
    ELSE [s EXCEPT !.addr = at + 1 + p_size, !.reads = @ \cup rd]

\* one evaluation of the loop condition and, when it holds, of the loop body
HasPropIter(d, ver, s) ==
    IF ~(s.addr < Len(d))
    THEN [s EXCEPT !.st = "ret"]
    ELSE LET size_byte == ByteAt(d, s.addr)
         IN  IF size_byte = 0
             THEN [s EXCEPT !.st = "ret", !.reads = @ \cup {s.addr}]
             ELSE IF ver <= 3
             THEN HasPropMatch(s, size_byte % 32, (size_byte \div 32) + 1,
                               s.addr, {s.addr})
             ELSE IF size_byte >= 128
             THEN IF s.addr + 1 >= Len(d)
                  THEN [s EXCEPT !.st = "ret", !.addr = s.addr + 1,
                                 !.reads = @ \cup {s.addr}]
                  ELSE LET sz == ByteAt(d, s.addr + 1) % 64
                       IN  HasPropMatch(s, size_byte % 64,
                                        IF sz = 0 THEN 64 ELSE sz,
                                        s.addr + 1, {s.addr, s.addr + 1})
             ELSE HasPropMatch(s, size_byte % 64,
                               IF (size_byte \div 64) % 2 = 0 THEN 1 ELSE 2,
                               s.addr, {s.addr})

RECURSIVE HasPropRun(_, _, _)
HasPropRun(d, ver, s) ==
    IF s.st = "loop" THEN HasPropRun(d, ver, HasPropIter(d, ver, s)) ELSE s

\* hasProperty(object, p)
HasProperty(d, ver, a, pn) == HasPropRun(d, ver, HasPropStart(d, a, pn)).res

\* ------------------------------------------------ ZMapExtractor._has_exit_properties

\* the property count above which an object looks like a room
ExitPropCount == 3

HasExitStart(d, a) ==
    IF a = NoObj \/ a >= Len(d)
    THEN DecState("hasexit", a, 0, "ret", 0, {}, EmptyMap, FALSE, 0)
    ELSE DecState("hasexit", a, 0, "loop", a + 1 + 2 * ByteAt(d, a), {a},
                  EmptyMap, FALSE, 0)

\* the end of a loop iteration: advance, then "if prop_count > 3: return True"
HasExitAdvance(s, next, rd) ==
    IF s.count + 1 > ExitPropCount
    THEN [s EXCEPT !.st = "ret", !.res = TRUE, !.addr = next,
                   !.count = @ + 1, !.reads = @ \cup rd]
    ELSE [s EXCEPT !.addr = next, !.count = @ + 1, !.reads = @ \cup rd]

HasExitIter(d, ver, s) ==
    IF ~(s.addr < Len(d))
    THEN [s EXCEPT !.st = "ret"]
    ELSE LET size_byte == ByteAt(d, s.addr)
         IN  IF size_byte = 0
             THEN [s EXCEPT !.st = "ret", !.reads = @ \cup {s.addr}]
             ELSE IF ver <= 3
             THEN HasExitAdvance(s, s.addr + 1 + (size_byte \div 32) + 1, {s.addr})
             ELSE IF size_byte >= 128
             THEN IF s.addr + 1 >= Len(d)
                  THEN [s EXCEPT !.st = "ret", !.count = @ + 1,
                                 !.reads = @ \cup {s.addr}]
                  ELSE LET sz == ByteAt(d, s.addr + 1) % 64
                       IN  HasExitAdvance(s,
                               s.addr + 1 + 1 + (IF sz = 0 THEN 64 ELSE sz),
                               {s.addr, s.addr + 1})
             ELSE HasExitAdvance(s,
                      s.addr + 1 + (IF (size_byte \div 64) % 2 = 0 THEN 1 ELSE 2),
                      {s.addr})

RECURSIVE HasExitRun(_, _, _)
HasExitRun(d, ver, s) ==
    IF s.st = "loop" THEN HasExitRun(d, ver, HasExitIter(d, ver, s)) ELSE s

HasExitProperties(d, ver, a) == HasExitRun(d, ver, HasExitStart(d, a)).res

\* ------------------------------------- StaticExitExtractor._find_exit_properties

\* the lowest property number taken for an exit: "if prop_num < 13: continue"
MinExitProp == 13

\* whether some byte of a property value is a room other than the room itself
PointsToOtherRoom(prop_data, room_num, room_objs) ==
    \E i \in DOMAIN prop_data :
        prop_data[i] \in room_objs /\ prop_data[i] # room_num

FindExitProperties_NoFloor(d, addrOf, rms, room_objs) ==
    {p \in 0..31 :
       \E i \in DOMAIN rms :
          LET props == GetObjectProperties(d, addrOf[rms[i]])
          IN  /\ p \in DOMAIN props
              /\ PointsToOtherRoom(props[p], rms[i], room_objs)}

\* exit_props: the property numbers, 13 or above, that in some room hold the
\* number of another room
FindExitProperties(d, addrOf, rms, room_objs) ==
    {p \in 0..31 :
       \E i \in DOMAIN rms :
          LET props == GetObjectProperties(d, addrOf[rms[i]])
          IN  /\ p \in DOMAIN props
              /\ ~(p < MinExitProp)
              /\ PointsToOtherRoom(props[p], rms[i], room_objs)}

\* ---------------------------- StaticExitExtractor._extract_room_refs_from_property

\* the scan of a multi-byte value: every byte that is another room, once each,
\* in the order met
RECURSIVE ScanRefs(_, _, _, _)
ScanRefs(prop_data, room_num, room_objs, refs) ==
    IF prop_data = <<>> THEN refs
    ELSE LET byte_val == Head(prop_data)
         IN  ScanRefs(Tail(prop_data), room_num, room_objs,
                      IF /\ byte_val \in room_objs
                         /\ byte_val # room_num
                         /\ byte_val \notin Range(refs)
                      THEN Append(refs, byte_val) ELSE refs)

\* the room itself is not left out
ExtractRoomRefsFromProperty_Self(prop_data, room_num, room_objs) ==
    IF Len(prop_data) = 1
    THEN IF prop_data[1] \in room_objs THEN <<prop_data[1]>> ELSE <<>>
    ELSE ScanRefs(prop_data, 0 - 1, room_objs, <<>>)

\* a byte that is no room is not left out
ExtractRoomRefsFromProperty_AnyByte(prop_data, room_num, room_objs) ==
    IF Len(prop_data) = 1
    THEN IF prop_data[1] # room_num THEN <<prop_data[1]>> ELSE <<>>
    ELSE ScanRefs(prop_data, room_num, Range(prop_data), <<>>)

\* the references are collected from the right
ExtractRoomRefsFromProperty_FromRight(prop_data, room_num, room_objs) ==
    IF Len(prop_data) = 1
    THEN IF prop_data[1] \in room_objs /\ prop_data[1] # room_num
         THEN <<prop_data[1]>> ELSE <<>>
    ELSE ScanRefs([i \in DOMAIN prop_data |-> prop_data[Len(prop_data) + 1 - i]],
                  room_num, room_objs, <<>>)

ExtractRoomRefsFromProperty(prop_data, room_num, room_objs) ==
    IF Len(prop_data) = 1
    THEN IF prop_data[1] \in room_objs /\ prop_data[1] # room_num
         THEN <<prop_data[1]>> ELSE <<>>
    ELSE ScanRefs(prop_data, room_num, room_objs, <<>>)

\* ------------------------------ StaticExitExtractor._get_property_to_word_mapping

\* the dictionary words the model draws from, as the parser decodes them
WordTexts == {"down", "up", "Down "}

\* word.strip().lower()
NormalizeWord(w) == CASE w = "Down " -> "down" [] OTHER -> w

\* the text taken to be two bytes
DictTextBytes_Two == 4 - 2

\* the bytes of a dictionary entry that hold its encoded text
DictTextBytes == 4
\* the highest extra byte taken for a property number
MaxHintProp == 31

\* the last word seen for a number is kept
RECURSIVE ScanExtra_LastWins(_, _, _)
ScanExtra_LastWins(m, extra, word) ==
    IF extra = <<>> THEN m
    ELSE LET potential_prop == Head(extra)
         IN  ScanExtra_LastWins(
                 IF 1 <= potential_prop /\ potential_prop <= 31
                 THEN [x \in DOMAIN m \cup {potential_prop} |->
                         IF x = potential_prop THEN word ELSE m[x]]
                 ELSE m,
                 Tail(extra), word)

\* "for potential_prop in extra": the first word seen for a number is kept
RECURSIVE ScanExtra(_, _, _)
ScanExtra(m, extra, word) ==
    IF extra = <<>> THEN m
    ELSE LET potential_prop == Head(extra)
         IN  ScanExtra(IF /\ 1 <= potential_prop
                          /\ potential_prop <= MaxHintProp
                          /\ potential_prop \notin DOMAIN m
                       THEN m @@ (potential_prop :> word) ELSE m,
                       Tail(extra), word)

\* the extra bytes of entry i (from 0): data[addr + 4:addr + entry_length]
ExtraBytes(d, base, entry_length, i) ==
    Slice(d, base + i * entry_length + DictTextBytes,
             base + i * entry_length + entry_length)

\* "for i, word in enumerate(words)"
RECURSIVE ScanWords(_, _, _, _, _, _)
ScanWords(m, d, base, entry_length, ws, i) ==
    IF i >= Len(ws) THEN m
    ELSE ScanWords(ScanExtra(m, ExtraBytes(d, base, entry_length, i),
                             NormalizeWord(ws[i + 1])),
                   d, base, entry_length, ws, i + 1)

\* the address of the entry-length byte: past the separator count and separators
DictHeaderAddr(d, da) == da + 1 + ByteAt(d, da)

\* whether reading the dictionary header raises IndexError: the
\* separator count data[dict_addr] or, past the separators, one of the three
\* bytes of entry length and entry count lies outside the image
DictHeaderRaises(d, da) ==
    \/ da >= Len(d)
    \/ DictHeaderAddr(d, da) + 2 >= Len(d)

\* entry_length, for a header inside the image
EntryLength(d, da) == ByteAt(d, DictHeaderAddr(d, da))

\* prop_to_word as _get_property_to_word_mapping returns it, for a header
\* inside the image
GetPropertyToWordMapping(d, da, ws) ==
    LET entry_length == EntryLength(d, da)
        base == DictHeaderAddr(d, da) + 3
    IN  IF entry_length <= DictTextBytes THEN EmptyMap
        ELSE ScanWords(EmptyMap, d, base, entry_length, ws, 0)

\* ------------------------------------------------------------- the labels

\* f"p{prop_num}"
SynthLabel(prop_num) == "p" \o ToString(prop_num)

\* ZMapExtractor._infer_direction: f"to_{to_room}"
InferDirection(from_room, to_room) == "to_" \o ToString(to_room)

\* the dictionary word is not looked up
ExitLabel_NoHint(p2w, prop_num) == "p" \o ToString(prop_num)

\* prop_to_word.get(prop_num, f"p{prop_num}")
ExitLabel(p2w, prop_num) ==
    IF prop_num \in DOMAIN p2w THEN p2w[prop_num] ELSE SynthLabel(prop_num)

\* ------------------------------- ZMapExtractor._find_room_references_in_routine

\* the margin of the routine search loop: len(self.parser.data) - 2
RoutineLoopMargin == 2

\* the search for property 1 of two bytes or more; 0 when there is none
RECURSIVE RoutineScan(_, _)
RoutineScan(d, addr) ==
    IF ~(addr < Len(d) - RoutineLoopMargin) THEN 0
    ELSE LET size_byte == ByteAt(d, addr)
             prop_num == size_byte % 32
             prop_size == (size_byte \div 32) + 1
         IN  IF size_byte = 0 THEN 0
             ELSE IF prop_num = 1 /\ prop_size >= 2
             THEN ByteAt(d, addr + 1) * 256 + ByteAt(d, addr + 2)
             ELSE RoutineScan(d, addr + 1 + prop_size)

\* routine_addr of the room whose property table is at a; 0 for none
RoutineAddr(d, a) ==
    IF a = NoObj \/ a >= Len(d) THEN 0
    ELSE RoutineScan(d, a + 1 + 2 * ByteAt(d, a))

\* whether the instruction loop decodes anything: there is a routine, its
\* locals count is inside the image (else IndexError, swallowed) and so is
\* the first instruction
RoutineDecoded(d, a) ==
    LET r == RoutineAddr(d, a)
    IN  /\ r # 0
        /\ r < Len(d)
        /\ r + 1 + 2 * ByteAt(d, r) < Len(d)

\* room_refs: the operands that are rooms other than room_num, once each
RECURSIVE CollectRefs(_, _, _, _)
CollectRefs(ops, room_num, rms, room_refs) ==
    IF ops = <<>> THEN room_refs
    ELSE LET op == Head(ops)
         IN  CollectRefs(Tail(ops), room_num, rms,
                         IF op \in rms /\ op # room_num /\ op \notin Range(room_refs)
                         THEN Append(room_refs, op) ELSE room_refs)

FindRoomReferencesInRoutine(d, a, room_num, rms, ops) ==
    IF RoutineDecoded(d, a) THEN CollectRefs(ops, room_num, rms, <<>>) ELSE <<>>

\* ------------------------------------------------- ZMapExtractor._extract_exits

\* the references of a routine that are looked at: room_refs[:8]
MaxRoutineRefs == 8

\* "for ref_room in room_refs[:8]: if ref_room in self.rooms:
\*      room.exits[direction] = ref_room"
RECURSIVE AddRoutineExits(_, _, _, _)
AddRoutineExits(ex, refs, room_num, rms) ==
    IF refs = <<>> THEN ex
    ELSE LET ref_room == Head(refs)
             direction == InferDirection(room_num, ref_room)
         IN  AddRoutineExits(
                 IF ref_room \in rms
                 THEN [l \in DOMAIN ex \cup {direction} |->
                         IF l = direction THEN ref_room ELSE ex[l]]
                 ELSE ex,
                 Tail(refs), room_num, rms)

\* the operands the instruction decoder may report for one routine
OperandVals == {7, 142, 143, 144}
OperandStreams == UNION {[1..n -> OperandVals] : n \in 0..2}

RoomSet == Range(rooms)

\* the start of _extract_exits: the import of the decoder
BytecodeStart ==
    /\ pc = "bytecode"
    /\ IF decoderAvail
       THEN pc' = "bc_loop" /\ ri' = 1
       ELSE pc' = "static" /\ ri' = 0
    /\ UNCHANGED <<objTbl, gameObjs>>
    /\ UNCHANGED <<data, version, objAddr, dictAddr, words, decoderAvail, rooms,
                   exits, roomObjs, exitProps, propOrder, pi, propToWord, total,
                   ret, dec>>

\* one iteration of "for room_num, room in self.rooms.items()"
BytecodeRoom ==
    /\ pc = "bc_loop"
    /\ ri <= Len(rooms)
    /\ \E ops \in OperandStreams :
          LET room_num == rooms[ri]
              room_refs == FindRoomReferencesInRoutine(
                               data, objAddr[room_num], room_num, RoomSet, ops)
          IN  exits' = [exits EXCEPT ![room_num] =
                          AddRoutineExits(@, SubSeq(room_refs, 1,
                                                    Min(MaxRoutineRefs, Len(room_refs))),
                                          room_num, RoomSet)]
    /\ ri' = ri + 1
    /\ UNCHANGED <<objTbl, gameObjs>>
    /\ UNCHANGED <<data, version, objAddr, dictAddr, words, decoderAvail, rooms,
                   pc, roomObjs, exitProps, propOrder, pi, propToWord, total,
                   ret, dec>>

\* the end of _extract_exits; extract_exits of the static extractor is next
BytecodeEnd ==
    /\ pc = "bc_loop"
    /\ ri > Len(rooms)
    /\ pc' = "static"
    /\ ri' = 0
    /\ UNCHANGED <<objTbl, gameObjs>>
    /\ UNCHANGED <<data, version, objAddr, dictAddr, words, decoderAvail, rooms,
                   exits, roomObjs, exitProps, propOrder, pi, propToWord, total,
                   ret, dec>>

\* ------------------------------------------- StaticExitExtractor.extract_exits

Perms(S) == {q \in [1..Cardinality(S) -> S] : Range(q) = S}

\* the entry of extract_exits and its step 1: room_objs, exit_props, and the
\* two early returns
StaticBegin ==
    /\ pc = "static"
    /\ roomObjs' = RoomSet
    /\ LET found == FindExitProperties(data, objAddr, rooms, RoomSet)
       IN  IF RoomSet = {}
           THEN exitProps' = {} /\ ret' = 0 /\ pc' = "done"
           ELSE /\ exitProps' = found
                /\ IF found = {}
                   THEN ret' = 0 /\ pc' = "done"
                   ELSE ret' = ret /\ pc' = "map"
    /\ UNCHANGED <<objTbl, gameObjs>>
    /\ UNCHANGED <<data, version, objAddr, dictAddr, words, decoderAvail, rooms,
                   exits, ri, propOrder, pi, propToWord, total, dec>>

\* step 2: prop_to_word = self._get_property_to_word_mapping(); an IndexError
\* of the header reads is caught nowhere
StaticMap ==
    /\ pc = "map"
    /\ IF DictHeaderRaises(data, dictAddr)
       THEN pc' = "raised" /\ propToWord' = propToWord
       ELSE /\ pc' = "filter"
            /\ propToWord' = GetPropertyToWordMapping(data, dictAddr, words)
    /\ UNCHANGED <<objTbl, gameObjs>>
    /\ UNCHANGED <<data, version, objAddr, dictAddr, words, decoderAvail, rooms,
                   exits, ri, roomObjs, exitProps, propOrder, pi, total, ret, dec>>

\* the filter of prop_to_word to the exit properties, and the start of step 3
StaticFilter ==
    /\ pc = "filter"
    /\ propToWord' = [p \in DOMAIN propToWord \cap exitProps |-> propToWord[p]]
    /\ total' = 0
    /\ propOrder' \in Perms(exitProps)
    /\ ri' = 1
    /\ pi' = 1
    /\ pc' = "loop"
    /\ UNCHANGED <<objTbl, gameObjs>>
    /\ UNCHANGED <<data, version, objAddr, dictAddr, words, decoderAvail, rooms,
                   exits, roomObjs, exitProps, ret, dec>>

\* the word is written whether or not the room has it
AddFirstExit_Overwrite(ex, dest_rooms, word) ==
    IF dest_rooms = <<>> THEN ex
    ELSE [l \in DOMAIN ex \cup {word} |->
            IF l = word THEN Head(dest_rooms) ELSE ex[l]]

\* "for dest in dest_rooms": the first destination whose word the room does
\* not have yet is added, and the loop is left
RECURSIVE AddFirstExit(_, _, _)
AddFirstExit(ex, dest_rooms, word) ==
    IF dest_rooms = <<>> THEN ex
    ELSE IF word \notin DOMAIN ex
    THEN ex @@ (word :> Head(dest_rooms))
    ELSE AddFirstExit(ex, Tail(dest_rooms), word)

\* the exits of room_num after the body of "for prop_num in exit_props"
ExitsAfterProperty(ex, props, prop_num, room_num, room_objs, p2w) ==
    IF prop_num \in DOMAIN props
    THEN AddFirstExit(ex,
             ExtractRoomRefsFromProperty(props[prop_num], room_num, room_objs),
             ExitLabel(p2w, prop_num))
    ELSE ex

\* one iteration of "for prop_num in exit_props" for the room the outer loop
\* is at
StaticPair ==
    /\ pc = "loop"
    /\ ri <= Len(rooms)
    /\ LET room_num == rooms[ri]
           props == GetObjectProperties(data, objAddr[room_num])
           after == ExitsAfterProperty(exits[room_num], props, propOrder[pi],
                                       room_num, roomObjs, propToWord)
       IN  /\ exits' = [exits EXCEPT ![room_num] = after]
           /\ total' = IF after # exits[room_num] THEN total + 1 ELSE total
    /\ IF pi < Len(propOrder)
       THEN pi' = pi + 1 /\ ri' = ri
       ELSE pi' = 1 /\ ri' = ri + 1
    /\ UNCHANGED <<objTbl, gameObjs>>
    /\ UNCHANGED <<data, version, objAddr, dictAddr, words, decoderAvail, rooms,
                   pc, roomObjs, exitProps, propOrder, propToWord, ret, dec>>

\* "return total_exits"
StaticReturn ==
    /\ pc = "loop"
    /\ ri > Len(rooms)
    /\ ret' = total
    /\ pc' = "done"
    /\ UNCHANGED <<objTbl, gameObjs>>
    /\ UNCHANGED <<data, version, objAddr, dictAddr, words, decoderAvail, rooms,
                   exits, ri, roomObjs, exitProps, propOrder, pi, propToWord,
                   total, dec>>

\* ------------------------------------------------------- the images of Spec

\* the objects of the images: the rooms are drawn among them
ObjIds == {142, 143, 144}

\* a legacy property record: header byte (32 * (size - 1) + number), then the value
Rec1(num, b) == <<num, b>>
Rec2(num, b1, b2) == <<32 + num, b1, b2>>

\* the encoded text of a dictionary entry (bytes that are also property numbers)
EntryText == <<15, 16, 15, 16>>

\* a dictionary: one separator, entry length, entry count, then the entries,
\* each the text bytes followed by its extra bytes
RECURSIVE DictEntries(_, _, _)
DictEntries(el, extras, i) ==
    IF i > Len(extras) THEN <<>>
    ELSE SubSeq(EntryText, 1, Min(el, Len(EntryText))) \o extras[i]
         \o DictEntries(el, extras, i + 1)

DictRegion(el, extras) == <<1, 44, el, 0, Len(extras)>> \o DictEntries(el, extras, 1)

\* an image: the property tables of 142, 143 and 144 (each with an empty short
\* name), then the dictionary
Image(t142, t143, dict) == <<0>> \o t142 \o <<0, 0>> \o t143 \o <<0, 0, 0>> \o dict

Addr143(t142) == Len(t142) + 2
Addr144(t142, t143) == Len(t142) + Len(t143) + 4
AddrDict(t142, t143) == Len(t142) + Len(t143) + 6

TableAddrs(t142, t143) ==
    (142 :> 0) @@ (143 :> Addr143(t142)) @@ (144 :> Addr144(t142, t143))

DecIdle == DecState("none", NoObj, 0, "idle", 0, {}, EmptyMap, FALSE, 0)

PipeInit(img, addrs, da, ws, dav, rms) ==
    /\ data = img
    /\ version = 3
    /\ objAddr = addrs
    /\ dictAddr = da
    /\ words = ws
    /\ decoderAvail = dav
    /\ rooms = rms
    /\ exits = [r \in Range(rms) |-> EmptyMap]
    /\ pc = "bytecode"
    /\ ri = 0
    /\ roomObjs = {}
    /\ exitProps = {}
    /\ propOrder = <<>>
    /\ pi = 0
    /\ propToWord = EmptyMap
    /\ total = 0
    /\ ret = None
    /\ dec = DecIdle
    /\ objTbl = EmptyMap
    /\ gameObjs = <<>>

\* dictionaries without hints, with one word per property, with one word for
\* two properties
PlainDicts ==
    {[bytes |-> DictRegion(4, << <<>>, <<>> >>), ws |-> <<"down", "up">>],
     [bytes |-> DictRegion(5, << <<15>>, <<16>> >>), ws |-> <<"down", "up">>],
     [bytes |-> DictRegion(5, << <<15>>, <<16>> >>), ws |-> <<"down", "Down ">>]}

\* images whose room tables vary: room 142 has up to two records (property 15
\* of one or two bytes, then property 12 or 16), room 143 up to one
InitTables ==
    \E t1 \in {<<>>} \cup {Rec1(15, b) : b \in ObjIds}
                     \cup {Rec2(15, b1, b2) : b1 \in ObjIds, b2 \in ObjIds},
       t2 \in {<<>>} \cup {Rec1(n, b) : n \in {12, 16}, b \in ObjIds},
       t3 \in {<<>>} \cup {Rec1(15, b) : b \in ObjIds},
       dict \in PlainDicts,
       rms \in {<<142, 143, 144>>, <<142, 143>>, <<143, 142>>} :
          PipeInit(Image(t1 \o t2, t3, dict.bytes), TableAddrs(t1 \o t2, t3),
                   AddrDict(t1 \o t2, t3), dict.ws, FALSE, rms)

\* the extra bytes drawn for dictionary entries: two property numbers and a
\* byte that is none
ExtraVals == {15, 16, 32}

\* images whose dictionary varies: entry length 3 to 6, up to MaxWords entries,
\* any extra bytes and words
InitDict ==
    \E el \in 3..6, n \in 0..MaxWords :
       \E extras \in [1..n -> [1..(IF el > 4 THEN el - 4 ELSE 0) -> ExtraVals]],
          ws \in [1..n -> WordTexts] :
          LET t142 == Rec1(15, 143) \o Rec1(16, 143)
              t143 == Rec1(15, 142)
          IN  PipeInit(Image(t142, t143, DictRegion(el, extras)),
                       TableAddrs(t142, t143), AddrDict(t142, t143), ws, FALSE,
                       <<142, 143>>)

\* images read through malformed addresses: any dictionary address, and for
\* each room any of its table address, an address past the image, or no object
InitAddrs ==
    LET t142 == Rec1(15, 143) \o Rec1(16, 143)
        t143 == Rec1(15, 142)
        img == Image(t142, t143, DictRegion(5, << <<15>>, <<16>> >>))
        good == TableAddrs(t142, t143)
    IN  \E da \in 0..(Len(img) + 1),
           a142 \in {good[142], Len(img), NoObj},
           a143 \in {good[143], Len(img) + 1, NoObj},
           rms \in {<<>>, <<142>>, <<142, 143>>} :
           PipeInit(img, (142 :> a142) @@ (143 :> a143) @@ (144 :> good[144]),
                    da, <<"down", "up">>, FALSE, rms)

\* images run with the instruction decoder: room 142 has an action routine
\* (property 1, two bytes) at address 0, at an address inside the image, or
\* past it
InitBytecode ==
    \E lo \in {0, 2, 255},
       b \in ObjIds,
       rms \in {<<142, 143>>, <<142, 143, 144>>} :
       LET t142 == Rec2(1, 0, lo) \o Rec2(15, b, 143)
           t143 == Rec1(15, 142)
       IN  PipeInit(Image(t142, t143, DictRegion(5, << <<15>>, <<16>> >>)),
                    TableAddrs(t142, t143), AddrDict(t142, t143),
                    <<"down", "up">>, TRUE, rms)

Init == InitTables \/ InitDict \/ InitAddrs \/ InitBytecode

Next ==
    \/ BytecodeStart
    \/ BytecodeRoom
    \/ BytecodeEnd
    \/ StaticBegin
    \/ StaticMap
    \/ StaticFilter
    \/ StaticPair
    \/ StaticReturn

Spec == Init /\ [][Next]_vars

\* ------------------------------------------------------- claims about Spec

\* the property table of a room, as the static extractor decodes it
RoomProps(r) == GetObjectProperties(data, objAddr[r])

\* the room and the property the static loop is at
CurRoom == rooms[ri]
CurProp == propOrder[pi]
AtPair == pc = "loop" /\ ri <= Len(rooms)

\* the labels a step adds to room r
AddedLabels(r) == DOMAIN exits'[r] \ DOMAIN exits[r]

\* C2: no malformed address aborts the run: the table of an object whose
\* property-table address lies at or beyond the image length is empty, and
\* extract_exits never ends in a raised error, whatever the dictionary address.
C2_NoAddressAborts ==
    /\ \A o \in DOMAIN objAddr :
          (objAddr[o] # NoObj /\ objAddr[o] >= Len(data))
             => GetObjectProperties(data, objAddr[o]) = EmptyMap
    /\ pc # "raised"

\* C3: exit-property discovery returns no property number below 13.
C3_NoExitPropertyBelow13 == \A p \in exitProps : p >= 13

\* exit properties were found while a room holds, in a property numbered 1..12,
\* the number of another room
C3_Witness ==
    /\ pc = "done"
    /\ exitProps # {}
    /\ \E r \in RoomSet : \E p \in DOMAIN RoomProps(r) \cap (1..12) :
          \E i \in DOMAIN RoomProps(r)[p] :
             RoomProps(r)[p][i] \in RoomSet \ {r}

\* C4: after any sequence of extraction passes no room has an exit whose
\* destination is the room itself.
C4_NoSelfLoop ==
    \A r \in DOMAIN exits : \A l \in DOMAIN exits[r] : exits[r][l] # r

\* both passes have run, and a room with exits from both holds its own number
\* in an exit property
C4_Witness ==
    /\ pc = "done"
    /\ decoderAvail
    /\ \E r \in RoomSet :
          /\ \E p \in exitProps \cap DOMAIN RoomProps(r) :
                /\ r \in Range(RoomProps(r)[p])
                /\ ExitLabel(propToWord, p) \in DOMAIN exits[r]
          /\ \E x \in RoomSet : InferDirection(r, x) \in DOMAIN exits[r]

\* C5: in every state, every destination stored in a room's exit mapping is
\* the number of a classified room.
C5_DestinationIsRoom ==
    \A r \in DOMAIN exits : \A l \in DOMAIN exits[r] : exits[r][l] \in RoomSet

\* extraction is over, and a room has an exit from an exit property one of
\* whose bytes is no room
C5_Witness ==
    /\ pc = "done"
    /\ \E r \in RoomSet : \E p \in exitProps \cap DOMAIN RoomProps(r) :
          /\ \E i \in DOMAIN RoomProps(r)[p] : RoomProps(r)[p][i] \notin RoomSet
          /\ ExitLabel(propToWord, p) \in DOMAIN exits[r]

\* C6: first write wins: once a room's exit mapping holds a destination for a
\* label, no step of static exit extraction changes or removes it.
C6_FirstWriteWins ==
    [][pc = "loop" =>
         \A r \in DOMAIN exits : \A l \in DOMAIN exits[r] :
            l \in DOMAIN exits'[r] /\ exits'[r][l] = exits[r][l]]_vars

\* extraction is over, and two exit properties of a room carry the same label
\* and lead to different rooms
C6_Witness ==
    /\ pc = "done"
    /\ \E r \in RoomSet : \E p, q \in exitProps \cap DOMAIN RoomProps(r) :
          LET rp == ExtractRoomRefsFromProperty(RoomProps(r)[p], r, roomObjs)
              rq == ExtractRoomRefsFromProperty(RoomProps(r)[q], r, roomObjs)
          IN  /\ p # q
              /\ ExitLabel(propToWord, p) = ExitLabel(propToWord, q)
              /\ rp # <<>> /\ rq # <<>> /\ rp[1] # rq[1]
              /\ exits[r][ExitLabel(propToWord, p)] = rp[1]

\* whether byte i of a value is the first that is a classified room other
\* than room r
IsFirstOtherRoom(val, i, r) ==
    /\ val[i] \in RoomSet \ {r}
    /\ \A j \in 1..(i - 1) : val[j] \notin RoomSet \ {r}

\* C7: each (room, exit property) pair adds at most one entry to that room's
\* exit mapping and none to another room's, and the destination of the entry
\* added is the first byte of the property's value, from the left, that is a
\* classified room other than the room itself.
C7_OneExitFirstDestination ==
    [][AtPair =>
         /\ \A r \in DOMAIN exits : r # CurRoom => exits'[r] = exits[r]
         /\ Cardinality(AddedLabels(CurRoom)) <= 1
         /\ \A l \in AddedLabels(CurRoom) :
               /\ CurProp \in DOMAIN RoomProps(CurRoom)
               /\ \E i \in DOMAIN RoomProps(CurRoom)[CurProp] :
                     /\ IsFirstOtherRoom(RoomProps(CurRoom)[CurProp], i, CurRoom)
                     /\ exits'[CurRoom][l] = RoomProps(CurRoom)[CurProp][i]]_vars

\* extraction is over, and a room has the exit of a two-byte property whose
\* bytes are two different other rooms
C7_Witness ==
    /\ pc = "done"
    /\ \E r \in RoomSet : \E p \in exitProps \cap DOMAIN RoomProps(r) :
          LET val == RoomProps(r)[p]
          IN  /\ Len(val) = 2
              /\ val[1] \in RoomSet \ {r}
              /\ val[2] \in RoomSet \ {r, val[1]}
              /\ ExitLabel(propToWord, p) \in DOMAIN exits[r]
              /\ exits[r][ExitLabel(propToWord, p)] = val[1]

\* C8: when the static loop reaches room r and exit property p, the value of
\* p is the single byte d, d is a classified room other than r, the hints map
\* p to word w and r has no exit labelled w, then r's exit mapping holds
\* w -> d after the step, and keeps it in every later step of the extraction.
C8_HintedExitRecorded ==
    [][/\ AtPair =>
            LET val == IF CurProp \in DOMAIN RoomProps(CurRoom)
                       THEN RoomProps(CurRoom)[CurProp] ELSE <<>>
            IN  (/\ Len(val) = 1
                 /\ val[1] \in RoomSet \ {CurRoom}
                 /\ CurProp \in DOMAIN propToWord
                 /\ propToWord[CurProp] \notin DOMAIN exits[CurRoom])
                => /\ propToWord[CurProp] \in DOMAIN exits'[CurRoom]
                   /\ exits'[CurRoom][propToWord[CurProp]] = val[1]
       /\ pc = "loop" =>
            \A r \in DOMAIN exits : \A p \in DOMAIN propToWord :
               propToWord[p] \in DOMAIN exits[r]
                  => /\ propToWord[p] \in DOMAIN exits'[r]
                     /\ exits'[r][propToWord[p]] = exits[r][propToWord[p]]]_vars

\* the fixture: rooms 142 and 143, property 15 of 142 is the byte 143, the
\* dictionary maps 15 to "down", and the exits of 142 are {"down": 143}
C8_Witness ==
    /\ pc = "done"
    /\ RoomSet = {142, 143}
    /\ 15 \in DOMAIN RoomProps(142)
    /\ RoomProps(142)[15] = <<143>>
    /\ 15 \in DOMAIN propToWord
    /\ propToWord[15] = "down"
    /\ exits[142] = ("down" :> 143)

\* whether the dictionary header is inside the image and its entry length is
\* at most 4
ShortEntries ==
    /\ dictAddr < Len(data)
    /\ dictAddr + 1 + data[dictAddr + 1] + 2 < Len(data)
    /\ data[dictAddr + 1 + data[dictAddr + 1] + 1] <= 4

\* C9: when the dictionary entry length is at most 4 the word-property mapping
\* is empty, and every exit the static extraction adds is labelled "p<N>" for
\* its property number N.
C9_SyntheticLabels ==
    [][(ShortEntries /\ pc \in {"map", "filter", "loop"}) =>
         /\ propToWord' = EmptyMap
         /\ AtPair => \A l \in AddedLabels(CurRoom) :
                         l = "p" \o ToString(CurProp)]_vars

\* the fixture with a dictionary of entry length 4: the exits of 142 are
\* {"p15": 143}
C9_Witness ==
    /\ pc = "done"
    /\ ShortEntries
    /\ RoomSet = {142, 143}
    /\ 15 \in DOMAIN RoomProps(142)
    /\ RoomProps(142)[15] = <<143>>
    /\ exits[142] = ("p15" :> 143)

\* the entry length and entry base of a dictionary whose header is inside the
\* image, and the values of the bytes after the 4 text bytes of entry i (from 1)
HdrAddr == dictAddr + 1 + data[dictAddr + 1]
HdrEntryLength == data[HdrAddr + 1]
HintBytes(i) ==
    {data[a + 1] : a \in {x \in (HdrAddr + 3 + (i - 1) * HdrEntryLength + 4)
                                 ..(HdrAddr + 3 + i * HdrEntryLength - 1) :
                          x < Len(data)}}

\* C10: for a dictionary with entry length above 4, the word-property mapping
\* has only keys in 1..31, and each key p maps to the (stripped, lower-cased)
\* word of the lowest-indexed entry one of whose extra bytes equals p.
C10_FirstWordPerProperty ==
    (pc = "filter" /\ HdrEntryLength > 4) =>
       \A p \in DOMAIN propToWord :
          /\ p \in 1..31
          /\ \E i \in 1..Len(words) :
                /\ p \in HintBytes(i)
                /\ \A j \in 1..(i - 1) : p \notin HintBytes(j)
                /\ propToWord[p] = NormalizeWord(words[i])

\* the mapping was built from a dictionary of entry length above 4 in which
\* two entries with different words carry the same property number
C10_Witness ==
    /\ pc = "filter"
    /\ HdrEntryLength > 4
    /\ \E p \in DOMAIN propToWord : \E i, j \in 1..Len(words) :
          /\ i < j
          /\ p \in HintBytes(i) /\ p \in HintBytes(j)
          /\ NormalizeWord(words[i]) # NormalizeWord(words[j])
          /\ propToWord[p] = NormalizeWord(words[i])

\* the number of exit entries held in the exit mappings of the rooms rms
RECURSIVE ExitEntries(_, _)
ExitEntries(ex, rms) ==
    IF rms = <<>> THEN 0
    ELSE Cardinality(DOMAIN ex[Head(rms)]) + ExitEntries(ex, Tail(rms))

\* C19: in the order the program runs (extract_all, then extract_exits of the
\* static extractor), the total that extract_exits returns is the number of
\* exit entries held in all rooms' exit mappings when it returns.
C19_TotalCountsAllExits ==
    pc = "done" => ret = ExitEntries(exits, rooms)

\* --------------------------------- ExitExtractor (src/extract_exits.py)

\* _analyze_routine: the instruction loop looks at call operands and records
\* nothing; the mapping it returns is the empty one it started with
AnalyzeRoutine(d, routine_addr, room_num) == EmptyMap

\* extract_room_exits for the room whose property table is at a: the routine
\* of property 1 is looked up (the same scan as RoutineAddr) and analysed;
\* every exception is swallowed
ExtractRoomExits(d, a, room_num) ==
    IF RoutineAddr(d, a) = 0 THEN EmptyMap
    ELSE AnalyzeRoutine(d, RoutineAddr(d, a), room_num)

\* C20: the bytecode-based signal is unused: no step of
\* ZMapExtractor._extract_exits adds, removes or changes an entry of a room's
\* exit mapping, and ExitExtractor.extract_room_exits gives no exit for any
\* room, so the room graph does not depend on the instruction decoder.
C20_BytecodeAddsNothing ==
    [][(pc \in {"bytecode", "bc_loop"} =>
           /\ exits' = exits
           /\ \A r \in RoomSet : ExtractRoomExits(data, objAddr[r], r) = EmptyMap)]_vars

\* ------------------------------------------------------------ SpecTwice

\* extract_exits called once more on the same extractor, rooms and image, after
\* a call that returned: the call has fresh locals; room.exits, self.room_objs
\* and the value the previous call returned are as that call left them
StaticAgain ==
    /\ pc = "done"
    /\ pc' = "static"
    /\ ri' = 0
    /\ pi' = 0
    /\ total' = 0
    /\ exitProps' = {}
    /\ propOrder' = <<>>
    /\ propToWord' = EmptyMap
    /\ UNCHANGED <<objTbl, gameObjs>>
    /\ UNCHANGED <<data, version, objAddr, dictAddr, words, decoderAvail, rooms,
                   exits, roomObjs, ret, dec>>

NextTwice ==
    \/ Next
    \/ StaticAgain

SpecTwice == Init /\ [][NextTwice]_vars

\* a call of extract_exits that follows one that returned is running
InLaterRun == ret # None /\ pc \in {"static", "map", "filter", "loop"}

\* C22: exit extraction is idempotent: a run of extract_exits that follows one
\* on the same rooms and image changes no room's exit mapping, and returns the
\* total that the run before it returned.
C22_SecondRunIdempotent ==
    [][(InLaterRun => /\ exits' = exits
                      /\ (pc' = "done" => ret' = ret))]_vars

\* ------------------------------------------------------------ SpecDecode

\* bytes of a fuzzed image: the terminator, headers of the legacy encoding
\* (1 = property 1 of 1 byte, 15 = property 15 of 1 byte, 32 = number 0 with
\* size bits set), headers of the extended encoding (79 = bit 6 set, 143 = bit 7
\* set: a second header byte follows)
FuzzBytes == {0, 1, 15, 32, 79, 143}

\* a fuzzed image is MaxFree free bytes or fewer, alone or followed by TailLen
\* equal bytes
TailLen == 11
TailFill == {0, 15, 143}

FuzzImages ==
    LET free == UNION {[1..n -> FuzzBytes] : n \in 1..MaxFree}
        tails == {<<>>} \cup {[i \in 1..TailLen |-> f] : f \in TailFill}
    IN  {f \o t : f \in free, t \in tails}

\* the calls a run decodes: function, obj.properties, property number asked for
DecodeCalls ==
    LET addrs == (0..(MaxFree + TailLen + 1)) \cup {NoObj}
    IN  {DecState("props", a, 0, "call", 0, {}, EmptyMap, FALSE, 0) : a \in addrs}
        \cup {DecState("hasexit", a, 0, "call", 0, {}, EmptyMap, FALSE, 0) : a \in addrs}
        \cup {DecState("has", a, pn, "call", 0, {}, EmptyMap, FALSE, 0) :
                a \in addrs, pn \in {1, 15}}

PipeIdle ==
    /\ objAddr = EmptyMap
    /\ dictAddr = 0
    /\ words = <<>>
    /\ decoderAvail = FALSE
    /\ rooms = <<>>
    /\ exits = EmptyMap
    /\ pc = "idle"
    /\ ri = 0
    /\ roomObjs = {}
    /\ exitProps = {}
    /\ propOrder = <<>>
    /\ pi = 0
    /\ propToWord = EmptyMap
    /\ total = 0
    /\ ret = None
    /\ objTbl = EmptyMap
    /\ gameObjs = <<>>

InitDecode ==
    /\ data \in FuzzImages
    /\ version \in {3, 5}
    /\ dec \in DecodeCalls
    /\ dec.obj <= Len(data) + 1
    /\ PipeIdle

GetPropsCall ==
    /\ dec.fn = "props" /\ dec.st = "call"
    /\ dec' = GetPropsStart(data, dec.obj)
    /\ UNCHANGED <<data, version, pipeVars>>

GetPropsLoop ==
    /\ dec.fn = "props" /\ dec.st = "loop"
    /\ dec' = GetPropsIter(data, dec)
    /\ UNCHANGED <<data, version, pipeVars>>

HasPropCall ==
    /\ dec.fn = "has" /\ dec.st = "call"
    /\ dec' = HasPropStart(data, dec.obj, dec.pn)
    /\ UNCHANGED <<data, version, pipeVars>>

HasPropLoop ==
    /\ dec.fn = "has" /\ dec.st = "loop"
    /\ dec' = HasPropIter(data, version, dec)
    /\ UNCHANGED <<data, version, pipeVars>>

HasExitCall ==
    /\ dec.fn = "hasexit" /\ dec.st = "call"
    /\ dec' = HasExitStart(data, dec.obj)
    /\ UNCHANGED <<data, version, pipeVars>>

HasExitLoop ==
    /\ dec.fn = "hasexit" /\ dec.st = "loop"
    /\ dec' = HasExitIter(data, version, dec)
    /\ UNCHANGED <<data, version, pipeVars>>

NextDecode ==
    \/ GetPropsCall
    \/ GetPropsLoop
    \/ HasPropCall
    \/ HasPropLoop
    \/ HasExitCall
    \/ HasExitLoop

SpecDecode == InitDecode /\ [][NextDecode]_vars

\* C1: property-table decoding (_get_object_properties, _has_property,
\* _has_exit_properties) reads only addresses 0..len(image)-1, whatever the
\* image bytes and whatever the object's property-table address.
C1_ReadsInsideImage == dec.reads \subseteq 0..(Len(data) - 1)

\* a decode that ran into the end of the image: the last byte is a header
\* announcing a second header byte, and the decode returned after reading it
C1_Witness ==
    /\ dec.st = "ret"
    /\ dec.fn \in {"has", "hasexit"}
    /\ version = 5
    /\ dec.obj # NoObj
    /\ (Len(data) - 1) \in dec.reads
    /\ ByteAt(data, Len(data) - 1) >= 128
    /\ Cardinality(dec.reads) >= 2

\* C15: for the legacy encoding, every entry of the table that
\* _get_object_properties returns has a property number in 1..31 and a value
\* of 1 to 8 bytes, whatever the image holds (also a non-zero size byte whose
\* low five bits are zero).
C15_LegacyEntriesInRange ==
    (dec.fn = "props" /\ version <= 3) =>
       \A p \in DOMAIN dec.props :
          p \in 1..31 /\ Len(dec.props[p]) \in 1..8

\* a reference decoder of the extended encoding (format version 4 and higher):
\* 6-bit property number; bit 7 announces a second header byte holding the
\* length in its low six bits (0 for 64); else bit 6 tells length 2 from
\* length 1.  It walks the table as _get_object_properties does (same loop
\* bound, same slice).
RECURSIVE RefExtendedScan(_, _, _)
RefExtendedScan(d, addr, props) ==
    IF ~(addr < Len(d) - PropsLoopMargin) THEN props
    ELSE LET size_byte == ByteAt(d, addr)
             p_num == size_byte % 64
             two == size_byte >= 128
             second == ByteAt(d, addr + 1) % 64
             p_size == IF two THEN (IF second = 0 THEN 64 ELSE second)
                       ELSE IF (size_byte \div 64) % 2 = 1 THEN 2 ELSE 1
             start == IF two THEN addr + 2 ELSE addr + 1
             value == Slice(d, start, start + p_size)
         IN  IF size_byte = 0 THEN props
             ELSE RefExtendedScan(d, start + p_size,
                      [q \in DOMAIN props \cup {p_num} |->
                          IF q = p_num THEN value ELSE props[q]])

RefExtendedProps(d, a) ==
    IF a = NoObj \/ a >= Len(d) THEN EmptyMap
    ELSE RefExtendedScan(d, a + 1 + 2 * ByteAt(d, a), EmptyMap)

\* C16: for an image of format version 4 or higher, the table that
\* _get_object_properties returns is the one a reference decoder of the
\* extended encoding returns.
C16_ExtendedDecoding ==
    (dec.fn = "props" /\ dec.st = "ret" /\ version >= 4) =>
       dec.props = RefExtendedProps(data, dec.obj)

\* C23: the two accessors agree: for a legacy image (version 3 or lower), any
\* object and any property number p, _has_property(object, p) returns True
\* exactly when p is a key of the table _get_object_properties(object) returns,
\* wherever in the image the table lies.
C23_AccessorsAgree ==
    (dec.fn = "has" /\ dec.st = "ret" /\ version <= 3) =>
       (dec.res <=> dec.pn \in DOMAIN GetObjectProperties(data, dec.obj))

\* ------------------------------------------------------ termination of the decoders

\* a called function runs on: every decode step that can be taken is taken
SpecDecodeFair == SpecDecode /\ WF_vars(NextDecode)

\* the decode got as far as its loop: the object exists and its table address
\* lies inside the image
LoopEntered == dec.obj # NoObj /\ dec.obj < Len(data)

\* the loop stopped at a zero header byte ("if size_byte == 0: break")
EndedAtZeroHeader ==
    /\ dec.addr < Len(data)
    /\ ByteAt(data, dec.addr) = 0

\* the loop stopped because the address reached the end of the image: the next
\* header byte, or the second byte of a two-byte header, lies past the last byte
EndedAtImageEnd ==
    \/ dec.addr >= Len(data)
    \/ /\ dec.fn \in {"has", "hasexit"} /\ version >= 4
       /\ dec.addr = Len(data) - 1
       /\ ByteAt(data, dec.addr) >= 128

\* the function returned from inside the loop with its answer ("return True")
ReturnedFromLoop == dec.fn \in {"has", "hasexit"} /\ dec.res = TRUE

\* every iteration that goes round the loop again moves the address forward
AddrIncreases ==
    (dec.st = "loop" /\ dec'.st = "loop") => dec'.addr > dec.addr

\* C21: property-table decoding always terminates: on every iteration the
\* address of the decode loop strictly increases; every decode returns; a
\* decode whose loop was entered has then stopped at a zero header byte or at
\* the end of the image (or has returned its boolean from inside the loop), and
\* no read has raised.
C21_DecodingTerminates ==
    /\ [][AddrIncreases]_vars
    /\ <>(dec.st = "ret")
    /\ []((dec.st = "ret" /\ LoopEntered) =>
             /\ EndedAtZeroHeader \/ EndedAtImageEnd \/ ReturnedFromLoop
             /\ dec.reads \subseteq 0..(Len(data) - 1))

\* ------------------------------------------------------------ SpecRoundTrip

\* a valid legacy property table: records <<number, value>> with distinct
\* numbers in strictly descending order, each value of 1 to 8 bytes
TableNums == {31, 15, 1}
TableValues == {<<7>>, <<1, 2>>, <<1, 2, 3, 4, 5, 6, 7, 8>>}

RECURSIVE TablesOver(_)
TablesOver(nums) ==
    IF nums = {} THEN {<<>>}
    ELSE LET top == CHOOSE n \in nums : \A m \in nums : m <= n
             rest == TablesOver(nums \ {top})
         IN  rest \cup {<< <<top, v>> >> \o t : v \in TableValues, t \in rest}

ValidTables == TablesOver(TableNums)

\* the encoding of a table: per record the size byte 32 * (size - 1) + number
\* and the value; then the zero terminator
RECURSIVE EncodeTable(_)
EncodeTable(t) ==
    IF t = <<>> THEN <<0>>
    ELSE <<32 * (Len(Head(t)[2]) - 1) + Head(t)[1]>> \o Head(t)[2]
         \o EncodeTable(Tail(t))

\* the number-to-bytes mapping of a table
TableMap(t) ==
    [p \in {t[i][1] : i \in DOMAIN t} |->
        (CHOOSE r \in Range(t) : r[1] = p)[2]]

\* a short-name blob of tl words
NameBlob(tl) == <<tl>> \o [i \in 1..(2 * tl) |-> 65]

\* the bytes before the blob and after the terminator
MaxBefore == 1
MaxAfter == 12
Padding(n) == [i \in 1..n |-> 0]

InitRoundTrip ==
    \E t \in ValidTables, tl \in {0, 1}, before \in 0..MaxBefore, after \in 0..MaxAfter :
       /\ data = Padding(before) \o NameBlob(tl) \o EncodeTable(t) \o Padding(after)
       /\ version = 3
       /\ dec = DecState("props", before, 0, "call", 0, {}, EmptyMap, FALSE, 0)
       /\ PipeIdle

NextRoundTrip ==
    \/ GetPropsCall
    \/ GetPropsLoop

SpecRoundTrip == InitRoundTrip /\ [][NextRoundTrip]_vars

\* the image holds at address a a blob of tl words followed by the encoding of
\* table t, all of it inside the image
EncodedAt(d, a, tl, t) ==
    LET start == a + 1 + 2 * tl
        enc == EncodeTable(t)
    IN  /\ a < Len(d)
        /\ ByteAt(d, a) = tl
        /\ start + Len(enc) <= Len(d)
        /\ Slice(d, start, start + Len(enc)) = enc

\* C17: round trip: for every valid legacy table encoded after a short-name
\* blob at any address where it fits inside the image, the table that
\* _get_object_properties returns is the encoded number-to-bytes mapping.
C17_RoundTrip ==
    (dec.fn = "props" /\ dec.st = "ret") =>
       \A t \in ValidTables, tl \in {0, 1} :
          EncodedAt(data, dec.obj, tl, t) => dec.props = TableMap(t)

\* ------------------------------------------------ ZMapExtractor._is_valid_name

\* A name is a sequence of characters, each one of three kinds:
\*   "an"  printable and alphanumeric, or one of -.,!?'"
\*   "sp"  the space (printable, and in the accepted set ' -.,!?\'"')
\*   "xx"  any other character
NameChars == {"an", "sp", "xx"}

\* printable_count
PrintableCount(name) == Cardinality({i \in DOMAIN name : name[i] \in {"an", "sp"}})

\* the threshold is lowered to one half
IsValidName_Half(name) ==
    /\ name # <<>>
    /\ Len(name) > 0
    /\ 2 * PrintableCount(name) >= Len(name)

\* "return total_count > 0 and (printable_count / total_count) >= 0.7"
IsValidName(name) ==
    /\ name # <<>>
    /\ Len(name) > 0
    /\ 10 * PrintableCount(name) >= 7 * Len(name)

\* "if not name or not name.strip(): continue" followed by
\* "if not self._is_valid_name(name): continue"
NameAccepted(name) ==
    /\ name # <<>>
    /\ \E i \in DOMAIN name : name[i] # "sp"
    /\ IsValidName(name)

\* ----------------------------------------------- ZMapExtractor._find_rooms

\* "max_obj = 255 if self.parser.header.version <= 3 else 2000"
MaxObjLegacy == 255
MaxObjExtended == 2000
MaxObj(ver) == IF ver <= 3 THEN MaxObjLegacy ELSE MaxObjExtended

\* the caps of the two scans, the start of the fallback scan, the room count
\* below which the fallback runs and the container taken without candidates
ScanCap == 256
FallbackCap == 300
RoomStart == 142
MinRooms == 10
DefaultContainer == 27

\* get_object(n) gives an object and get_object_name(n) its name: the object
\* exists and neither call raises
Decodable(tbl, n) == n \in DOMAIN tbl /\ tbl[n].kind = "obj"

\* the lowest of a non-empty set of numbers
MinOf(S) == CHOOSE x \in S : \A y \in S : x <= y

\* the elements of S between lo and hi, ascending (the order in which a
\* "for obj_num in range(...)" loop meets them)
RECURSIVE AscSeq(_, _, _)
AscSeq(S, lo, hi) ==
    IF lo > hi THEN <<>>
    ELSE IF lo = hi THEN (IF lo \in S THEN <<lo>> ELSE <<>>)
    ELSE LET mid == (lo + hi) \div 2
         IN  AscSeq(S, lo, mid) \o AscSeq(S, mid + 1, hi)

\* "for obj_num in range(1, min(max_obj, 256))"
ScanRange(ver) == 1..(Min(MaxObj(ver), ScanCap) - 1)

\* first pass: the objects that enter parent_counts
CandidateObjs(d, ver, tbl, addrs) ==
    {c : c \in {n \in ScanRange(ver) : /\ Decodable(tbl, n)
                                       /\ NameAccepted(tbl[n].name)
                                       /\ HasExitProperties(d, ver, addrs[n])}}

\* parent_counts[p]
ParentCount(tbl, cands, p) == Cardinality({c \in cands : tbl[c].parent = p})

\* "parent_counts.most_common(1)[0][0]", else 27: of the parents with the
\* highest count, the one the first pass met first
RoomsContainer(tbl, cands) ==
    IF cands = {} THEN DefaultContainer
    ELSE LET top(c) == \A c2 \in cands :
                          ParentCount(tbl, cands, tbl[c2].parent)
                              <= ParentCount(tbl, cands, tbl[c].parent)
             first == CHOOSE c \in cands :
                         top(c) /\ \A c2 \in cands : top(c2) => c <= c2
         IN  tbl[first].parent

\* second pass: the objects written to self.rooms
ContainerRooms(d, ver, tbl, addrs) ==
    UNION {{n \in ScanRange(ver) : /\ Decodable(tbl, n)
                                   /\ tbl[n].parent = rooms_container
                                   /\ NameAccepted(tbl[n].name)} :
           rooms_container \in {RoomsContainer(tbl, CandidateObjs(d, ver, tbl, addrs))}}

\* the keys of self.rooms after the second pass: a key that is there keeps its
\* place, the new ones follow in ascending order
RoomsAfterContainer(ver, cur, hit) ==
    cur \o AscSeq(hit \ Range(cur), 1, Min(MaxObj(ver), ScanCap) - 1)

\* where a scan "for obj_num in range(lo, hi + 1)" with "if not obj: break"
\* stops: the first number not in skip for which get_object gives None, or
\* hi + 1 when there is none
ScanStop(tbl, lo, hi, skip) ==
    LET gone == {n \in lo..hi : n \notin skip /\ n \notin DOMAIN tbl}
    IN  IF gone = {} THEN hi + 1 ELSE MinOf(gone)

\* the fallback loop over lo..hi; had is the key set before the loop.  A number
\* already a key is passed over before get_object is called; an object that
\* raises, or whose name is not accepted, is passed over too
FallbackScan(tbl, lo, hi, had, rms) ==
    LET added == {r : r \in {n \in lo..(ScanStop(tbl, lo, hi, had) - 1) :
                                /\ n \notin had
                                /\ Decodable(tbl, n)
                                /\ NameAccepted(tbl[n].name)}}
    IN  rms \o AscSeq(added, lo, hi)

\* the fallback starts from an empty mapping
RoomsAfterFallback_Replace(ver, tbl, cur) ==
    IF Len(cur) < MinRooms
    THEN FallbackScan(tbl, RoomStart, Min(MaxObj(ver), FallbackCap) - 1, {}, <<>>)
    ELSE cur

\* "if len(self.rooms) < 10: for obj_num in range(142, min(max_obj, 300))"
RoomsAfterFallback(ver, tbl, cur) ==
    IF Len(cur) < MinRooms
    THEN FallbackScan(tbl, RoomStart, Min(MaxObj(ver), FallbackCap) - 1,
                      Range(cur), cur)
    ELSE cur

\* ---------------------------------------------- ZMapExtractor._find_objects

\* property 9 is not looked at
IsTakable_NoCapacity(d, ver, a) ==
    HasProperty(d, ver, a, 5) \/ HasProperty(d, ver, a, 6)

\* is_takable
IsTakable(d, ver, a) ==
    HasProperty(d, ver, a, 5) \/ HasProperty(d, ver, a, 6) \/ HasProperty(d, ver, a, 9)

\* GameObject(obj_num, name, location=obj.parent)
GameObject(n, name, location) == [obj_num |-> n, name |-> name, location |-> location]

\* "for obj_num in range(1, min_room_num)": the numbers the loop appends, up
\* to where "if not obj: break" stops it
ObjectScan(d, ver, tbl, addrs, lo, hi, objs) ==
    LET takable == {o : o \in {n \in lo..(ScanStop(tbl, lo, hi, {}) - 1) :
                                  /\ Decodable(tbl, n)
                                  /\ NameAccepted(tbl[n].name)
                                  /\ IsTakable(d, ver, addrs[n])}}
        order == AscSeq(takable, lo, hi)
    IN  objs \o [i \in DOMAIN order |->
                    GameObject(order[i], tbl[order[i]].name, tbl[order[i]].parent)]

\* self.objects after _find_objects
ObjectsAfterFind(d, ver, tbl, addrs, rms, objs) ==
    IF rms = <<>> THEN objs
    ELSE ObjectScan(d, ver, tbl, addrs, 1, MinOf(Range(rms)) - 1, objs)

\* ------------------------------------------------------------- SpecRooms

\* _find_rooms up to the fallback (first and second run)
FindRoomsContainer ==
    /\ pc \in {"find_rooms", "find_rooms_again"}
    /\ \E hit \in {ContainerRooms(data, version, objTbl, objAddr)} :
          /\ rooms' = RoomsAfterContainer(version, rooms, hit)
          /\ exits' = [r \in Range(rooms) \cup hit |->
                          IF r \in hit THEN EmptyMap ELSE exits[r]]
    /\ pc' = IF pc = "find_rooms" THEN "fallback" ELSE "fallback_again"
    /\ UNCHANGED <<data, version, objAddr, dictAddr, words, decoderAvail, ri,
                   roomObjs, exitProps, propOrder, pi, propToWord, total, ret,
                   dec, objTbl, gameObjs>>

\* the fallback of _find_rooms (first and second run)
FindRoomsFallback ==
    /\ pc \in {"fallback", "fallback_again"}
    /\ rooms' = RoomsAfterFallback(version, objTbl, rooms)
    /\ exits' = [r \in Range(rooms') |->
                    IF r \in Range(rooms) THEN exits[r] ELSE EmptyMap]
    /\ pc' = IF pc = "fallback" THEN "find_objects" ELSE "rooms_done"
    /\ UNCHANGED <<data, version, objAddr, dictAddr, words, decoderAvail, ri,
                   roomObjs, exitProps, propOrder, pi, propToWord, total, ret,
                   dec, objTbl, gameObjs>>

\* _find_objects; a second run of _find_rooms on the same extractor is next
FindObjects ==
    /\ pc = "find_objects"
    /\ gameObjs' = ObjectsAfterFind(data, version, objTbl, objAddr, rooms, gameObjs)
    /\ pc' = "find_rooms_again"
    /\ UNCHANGED <<data, version, objAddr, dictAddr, words, decoderAvail, rooms,
                   exits, ri, roomObjs, exitProps, propOrder, pi, propToWord,
                   total, ret, dec, objTbl>>

\* the image of SpecRooms: four property tables, each with an empty short name
\* (four properties; property 9 alone; property 5 alone; property 7 alone)
RichAddr == 0
CapacityAddr == 10
ValueAddr == 14
PlainAddr == 18
RoomsImage ==
    <<0, 18, 1, 17, 1, 16, 1, 15, 1, 0>> \o <<0, 9, 1, 0>> \o <<0, 5, 1, 0>>
        \o <<0, 7, 1, 0>>

\* names: all characters accepted; exactly 70% accepted (spaces among them);
\* 60% accepted; spaces only
RECURSIVE Rep(_, _)
Rep(c, n) == IF n = 0 THEN <<>> ELSE <<c>> \o Rep(c, n - 1)
GoodName == Rep("an", 4)
EdgeName == Rep("an", 5) \o Rep("sp", 2) \o Rep("xx", 3)
GarbledName == Rep("an", 6) \o Rep("xx", 4)
SpaceName == Rep("sp", 3)

\* what the parser gives for an object: kind "obj" with parent, name and
\* property-table address, or kind "raise" (get_object or get_object_name
\* raises IndexError or struct.error)
ObjRec(parent, name, addr) ==
    [kind |-> "obj", parent |-> parent, name |-> name, addr |-> addr]
RaiseRec == [kind |-> "raise", parent |-> 0, name |-> <<>>, addr |-> 0]

\* the objects drawn for the numbers that vary
ObjChoices ==
    {ObjRec(27, GoodName, RichAddr), ObjRec(30, GoodName, RichAddr),
     ObjRec(27, GarbledName, RichAddr), ObjRec(27, SpaceName, RichAddr),
     ObjRec(30, EdgeName, CapacityAddr), ObjRec(30, GarbledName, ValueAddr),
     ObjRec(30, SpaceName, CapacityAddr), RaiseRec}

\* the object every other number has: nameless, or named and in 27 or 30
Fillers ==
    {ObjRec(0, <<>>, PlainAddr), ObjRec(27, GoodName, PlainAddr),
     ObjRec(30, GoodName, PlainAddr)}

\* the numbers that vary, and the format versions with the object counts drawn
VariedObjs == {2, 143, 144}
TableShapes == {<<3, 144>>, <<3, 255>>, <<5, 300>>}

InitRooms ==
    \E shape \in TableShapes, fill \in Fillers, pick \in [VariedObjs -> ObjChoices] :
       LET full == [n \in 1..shape[2] |->
                       IF n \in VariedObjs THEN pick[n] ELSE fill]
       IN  /\ data = RoomsImage
           /\ version = shape[1]
           /\ objTbl = [n \in DOMAIN full |->
                           [kind |-> full[n].kind, parent |-> full[n].parent,
                            name |-> full[n].name]]
           /\ objAddr = [n \in DOMAIN full |-> full[n].addr]
           /\ dictAddr = 0
           /\ words = <<>>
           /\ decoderAvail = FALSE
           /\ rooms = <<>>
           /\ exits = EmptyMap
           /\ pc = "find_rooms"
           /\ ri = 0
           /\ roomObjs = {}
           /\ exitProps = {}
           /\ propOrder = <<>>
           /\ pi = 0
           /\ propToWord = EmptyMap
           /\ total = 0
           /\ ret = None
           /\ dec = DecIdle
           /\ gameObjs = <<>>

NextRooms ==
    \/ FindRoomsContainer
    \/ FindRoomsFallback
    \/ FindObjects

SpecRooms == InitRooms /\ [][NextRooms]_vars

\* ------------------------------------------------- claims about SpecRooms

\* the numbers of the classified game objects
GameObjNums == {gameObjs[i].obj_num : i \in DOMAIN gameObjs}

\* the candidates and the container of the image
Candidates == CandidateObjs(data, version, objTbl, objAddr)
Container == RoomsContainer(objTbl, Candidates)

\* a name of which fewer than 70% of the characters are accepted
FewerThan70(name) == Len(name) > 0 /\ 10 * PrintableCount(name) < 7 * Len(name)

\* a name of which at least 70% of the characters are accepted
AtLeast70(name) == Len(name) > 0 /\ 10 * PrintableCount(name) >= 7 * Len(name)

\* whether the object at n carries one of the properties 5, 6 and 9
Carries569(n) == \E p \in {5, 6, 9} : HasProperty(data, version, objAddr[n], p)

\* C11: room identification is idempotent: a second run of _find_rooms on the
\* same extractor leaves the set of room identifiers as the first run made it
\* (neither its container phase nor its fallback changes the set), also when
\* the first run used the fallback scan.
C11_SecondRunSameRooms ==
    [][(pc \in {"find_rooms_again", "fallback_again"} =>
           Range(rooms') = Range(rooms))]_vars

\* both runs are over, and the first one took rooms from the container and
\* others from the fallback scan
C11_Witness ==
    /\ pc = "rooms_done"
    /\ \E hit \in {ContainerRooms(data, version, objTbl, objAddr)} :
          /\ hit # {}
          /\ Cardinality(hit) < MinRooms
          /\ Range(rooms) \ hit # {}

\* C12: an object whose name has fewer than 70% accepted characters is never
\* a room (by the container phase or by the fallback scan) and never a game
\* object, whatever its parent and its properties.
C12_GarbledNeverClassified ==
    \A n \in Range(rooms) \cup GameObjNums : ~FewerThan70(objTbl[n].name)

\* the rooms and the objects are found, the fallback scan ran, and the image
\* has a garbled-named object in the container with more than three
\* properties, inside the fallback range, and a garbled-named object below the
\* lowest room with property 5, 6 or 9
C12_Witness ==
    /\ pc = "find_rooms_again"
    /\ rooms # <<>>
    /\ Len(rooms) < MinRooms
    /\ \E n \in DOMAIN objTbl :
          /\ n >= RoomStart
          /\ Decodable(objTbl, n)
          /\ FewerThan70(objTbl[n].name)
          /\ objTbl[n].parent = Container
          /\ HasExitProperties(data, version, objAddr[n])
    /\ \E m \in DOMAIN objTbl :
          /\ m < MinOf(Range(rooms))
          /\ Decodable(objTbl, m)
          /\ FewerThan70(objTbl[m].name)
          /\ Carries569(m)

\* C13: when there is a room candidate, the rooms container is a parent whose
\* candidate tally is maximal, and every object of the object table whose
\* parent is the container and whose name is valid is a room after the
\* container phase, for every object number of the table.
C13_ContainerChildrenAreRooms ==
    (pc = "fallback" /\ Candidates # {}) =>
       \A c \in {Container} :
          /\ \A k \in Candidates :
                ParentCount(objTbl, Candidates, objTbl[k].parent)
                    <= ParentCount(objTbl, Candidates, c)
          /\ \A n \in DOMAIN objTbl :
                (/\ Decodable(objTbl, n)
                 /\ objTbl[n].parent = c
                 /\ AtLeast70(objTbl[n].name)) => n \in Range(rooms)

\* the first number from 142 on that cannot be decoded: there is no such
\* object, or decoding it raises
FirstUndecodable ==
    MinOf({n \in RoomStart..(Len(objTbl) + 1) : ~Decodable(objTbl, n)})

\* C14: when the container phase gave fewer than 10 rooms, the rooms the
\* fallback adds are exactly the valid-named objects from 142 up to the first
\* object that cannot be decoded; with 10 rooms or more it adds nothing.
C14_FallbackRange ==
    [][(pc = "fallback" =>
           IF Len(rooms) < MinRooms
           THEN Range(rooms') \ Range(rooms) =
                   {n \in RoomStart..(FirstUndecodable - 1) :
                       n \notin Range(rooms) /\ AtLeast70(objTbl[n].name)}
           ELSE Range(rooms') = Range(rooms))]_vars

\* a name that is valid and not blank (not made of spaces only)
ValidNotBlank(name) == AtLeast70(name) /\ \E i \in DOMAIN name : name[i] # "sp"

\* what C18 says of the game objects, with a blank name taken for a valid
\* name or not
ObjectsAreExactly(blankIsValid) ==
    /\ GameObjNums =
          IF rooms = <<>> THEN {}
          ELSE {n \in 1..(MinOf(Range(rooms)) - 1) :
                   /\ Decodable(objTbl, n)
                   /\ IF blankIsValid THEN AtLeast70(objTbl[n].name)
                      ELSE ValidNotBlank(objTbl[n].name)
                   /\ Carries569(n)}
    /\ Len(gameObjs) = Cardinality(GameObjNums)
    /\ \A i \in DOMAIN gameObjs :
          /\ gameObjs[i].obj_num \notin Range(rooms)
          /\ gameObjs[i].location = objTbl[gameObjs[i].obj_num].parent
    /\ rooms = <<>> => gameObjs = <<>>

\* C18 as stated: the game objects are exactly the objects below the lowest
\* room that have a valid name (at least 70% accepted characters) and carry
\* property 5, 6 or 9; none is a room, each has its parent as location, and
\* without rooms there is none.
C18_ObjectsExactlyValidNamed ==
    pc = "find_rooms_again" => ObjectsAreExactly(TRUE)

\* C18, amended: the game objects are exactly the objects below the lowest
\* room that have a valid name that is not blank and carry property 5, 6 or 9;
\* none is a room, each has its parent as location, and without rooms there is
\* none.
C18_ObjectsExactlyNamed ==
    pc = "find_rooms_again" => ObjectsAreExactly(FALSE)

\* a game object was classified for property 9 alone, a blank-named object
\* with property 9 below the lowest room was not
C18_Witness ==
    /\ pc = "find_rooms_again"
    /\ \E i \in DOMAIN gameObjs :
          /\ HasProperty(data, version, objAddr[gameObjs[i].obj_num], 9)
          /\ ~HasProperty(data, version, objAddr[gameObjs[i].obj_num], 5)
          /\ ~HasProperty(data, version, objAddr[gameObjs[i].obj_num], 6)
    /\ \E n \in 1..(MinOf(Range(rooms)) - 1) :
          /\ Decodable(objTbl, n)
          /\ AtLeast70(objTbl[n].name)
          /\ Carries569(n)
          /\ n \notin GameObjNums

====
